---- MODULE Spec2Model ----
(***************************************************************************)
(* Model of the Graphistry MCP launcher (index.js) and of the post-install *)
(* script (postinstall.js).                                                *)
(*                                                                         *)
(* index.js is a supervisor: it checks that the worker script exists,      *)
(* selects a Python interpreter, spawns the worker with an augmented       *)
(* environment, and then sits in the event loop where three kinds of       *)
(* events are delivered: the worker's 'error' event, the worker's 'exit'   *)
(* event, and SIGTERM / SIGINT received by the supervisor.                 *)
(*                                                                         *)
(* postinstall.js looks for python and uv with checkCommand and then runs  *)
(* the installers.                                                         *)
(***************************************************************************)
EXTENDS Integers, Sequences, FiniteSets, TLC

VARIABLES
    prog,           \* which script this run executes: "index" or "postinstall"
    env,            \* process.env of the running script
    pc,             \* index.js: position of the supervisor
    fsChecks,       \* index.js: fs.existsSync calls made so far, <<[path, exists]>>
    probes,         \* index.js: spawnSync(cmd, ['--version']) calls, <<[cmd, status]>>
    pythonCmd,      \* index.js: value returned by findPython ("" before)
    spawnCalls,     \* index.js: number of calls of spawn()
    workerSpawns,   \* index.js: number of worker processes actually created
    workerState,    \* "none", "running" or "exited"
    workerCmd,      \* command the worker was started with
    workerArgs,     \* arguments the worker was started with
    workerEnv,      \* environment handed to the worker
    workerCode,     \* exit code of the worker (NullCode if none)
    workerSignal,   \* signal that terminated the worker (NullSignal if none)
    pendingEvent,   \* event queued on the ChildProcess: "none", "error", "exit"
    exitHandled,    \* the 'exit' listener has run
    sigReceived,    \* SIGTERM/SIGINT for which the supervisor's listener ran
    workerSignals,  \* signals delivered to the worker by pythonProcess.kill
    stderr,         \* messages written with console.error / console.warn
    exitStatus,     \* exit status of the supervisor (NullCode while alive)
    exitCause,      \* what ended the supervisor
    sysRunnable,    \* postinstall.js: commands that can really be executed
    pyproject,      \* postinstall.js: pyproject.toml exists
    postPc,         \* postinstall.js: position in main()
    postPython,     \* postinstall.js: pythonCmd of main()
    hasUv,          \* postinstall.js: hasUv of main()
    postLog,        \* postinstall.js: messages logged and installers executed
    postExit        \* postinstall.js: exit status (NullCode while running)

vars == << prog, env, pc, fsChecks, probes, pythonCmd, spawnCalls, workerSpawns,
           workerState, workerCmd, workerArgs, workerEnv, workerCode,
           workerSignal, pendingEvent, exitHandled, sigReceived, workerSignals,
           stderr, exitStatus, exitCause,
           sysRunnable, pyproject, postPc, postPython, hasUv, postLog, postExit >>

indexVars == << pc, fsChecks, probes, pythonCmd, spawnCalls, workerSpawns,
                workerState, workerCmd, workerArgs, workerEnv, workerCode,
                workerSignal, pendingEvent, exitHandled, sigReceived,
                workerSignals, stderr, exitStatus, exitCause >>

postVars == << postPc, postPython, hasUv, postLog, postExit >>

(***************************************************************************)
(* Bounds                                                                  *)
(***************************************************************************)
\* largest exit status a worker reports
MaxCode == 255
\* number of SIGTERM/SIGINT deliveries to the supervisor that are explored
MaxSignals == 1
\* number of distinct non-empty values an environment variable may hold
MaxEnvVal == 1

(***************************************************************************)
(* Values                                                                  *)
(***************************************************************************)
\* JavaScript null for a number-valued slot (code, status)
NullCode == -1
\* JavaScript null for a string-valued slot (signal)
NullSignal == "null"
\* a variable that is not set in an environment
Absent == "absent"

Codes == 0..MaxCode

\* signals the supervisor listens for
ForwardedSignals == {"SIGTERM", "SIGINT"}
\* signals that may terminate the worker
KillSignals == ForwardedSignals \cup {"SIGKILL"}

EnvVal(n) == IF n = 1 THEN "0" ELSE IF n = 2 THEN "1" ELSE ToString(n)
FlagNames == {"PYTHONUNBUFFERED", "GRAPHISTRY_VENV_ACTIVE"}
CredentialNames == {"GRAPHISTRY_USERNAME", "GRAPHISTRY_PASSWORD"}
EnvNames == FlagNames \cup CredentialNames
FlagVals == {Absent} \cup {EnvVal(n) : n \in 1..MaxEnvVal}
CredVals == {Absent, "secret"}
Envs == {e \in [EnvNames -> FlagVals \cup CredVals] :
            /\ \A n \in FlagNames : e[n] \in FlagVals
            /\ \A n \in CredentialNames : e[n] \in CredVals}

serverPath == "run_graphistry_mcp.py"
venvPaths == << ".venv/bin/python", ".venv/Scripts/python.exe" >>
candidates == << "python3", "python" >>

\* result.status of spawnSync: 0, a non-zero status, or null (ENOENT, killed)
ProbeStatuses == {0, 1, NullCode}

Msg(kind, code, text) == [kind |-> kind, code |-> code, text |-> text]


(***************************************************************************)
(* index.js                                                                *)
(***************************************************************************)
Last(s) == s[Len(s)]

\* a probe that counts null as success: if (!result.status)
ProbeSelectsFalsy(status) == status = 0 \/ status = NullCode

\* a probe that counts any completed run as success: if (result.status !== null)
ProbeSelectsRan(status) == status # NullCode

\* index.js:34  if (result.status === 0)
ProbeSelects(status) == status = 0

\* the flags placed before the spread: { PYTHONUNBUFFERED: '1', ..., ...process.env }
SpawnEnvSpreadLast(e) ==
    [n \in (DOMAIN e) \cup FlagNames |->
        IF n \in FlagNames /\ (n \notin DOMAIN e \/ e[n] = Absent) THEN "1" ELSE e[n]]

\* index.js:63-67  env: { ...process.env, PYTHONUNBUFFERED: '1',
\*                        GRAPHISTRY_VENV_ACTIVE: '1' }
SpawnEnv(e) ==
    [n \in (DOMAIN e) \cup FlagNames |-> IF n \in FlagNames THEN "1" ELSE e[n]]

\* an 'exit' listener that reports a failing worker and exits with 1
ExitListenerStatusOne(code, signal) ==
    IF code # NullCode /\ code # 0
    THEN [exits |-> TRUE, status |-> 1,
          msgs |-> << Msg("WorkerAbnormalExit", code, NullSignal) >>]
    ELSE IF signal # NullSignal
    THEN [exits |-> TRUE, status |-> 1,
          msgs |-> << Msg("WorkerKilled", NullCode, signal) >>]
    ELSE [exits |-> FALSE, status |-> NullCode, msgs |-> << >>]

\* an 'exit' listener without the signal branch
ExitListenerNoSignal(code, signal) ==
    IF code # NullCode /\ code # 0
    THEN [exits |-> TRUE, status |-> code,
          msgs |-> << Msg("WorkerAbnormalExit", code, NullSignal) >>]
    ELSE [exits |-> FALSE, status |-> NullCode, msgs |-> << >>]

\* index.js:76-85  the 'exit' listener: what it writes and whether it calls
\* process.exit, as a function of (code, signal)
ExitListener(code, signal) ==
    IF code # NullCode /\ code # 0
    THEN [exits |-> TRUE, status |-> code,
          msgs |-> << Msg("WorkerAbnormalExit", code, NullSignal) >>]
    ELSE IF signal # NullSignal
    THEN [exits |-> TRUE, status |-> 1,
          msgs |-> << Msg("WorkerKilled", NullCode, signal) >>]
    ELSE [exits |-> FALSE, status |-> NullCode, msgs |-> << >>]

\* pythonProcess.kill() without its argument sends the default signal
KillSignalDefault(signal) == "SIGTERM"

\* index.js:90  pythonProcess.kill(signal): the signal sent to the worker
KillSignal(signal) == signal

\* process.exit(status) after the messages msgs were written
Exit(status, msgs, cause) ==
    /\ stderr' = stderr \o msgs
    /\ exitStatus' = status
    /\ exitCause' = cause
    /\ pc' = << "exited", 0 >>

\* a serverPath check that reports the missing file and carries on
CheckServerNoExit ==
    /\ prog = "index"
    /\ pc = << "checkServer", 0 >>
    /\ \E exists \in BOOLEAN :
        /\ fsChecks' = Append(fsChecks, [path |-> serverPath, exists |-> exists])
        /\ stderr' = IF ~exists
                     THEN stderr \o << Msg("WorkerScriptMissing", NullCode, serverPath) >>
                     ELSE stderr
    /\ pc' = << "venv", 1 >>
    /\ UNCHANGED << prog, env, probes, pythonCmd, spawnCalls, workerSpawns,
                    workerState, workerCmd, workerArgs, workerEnv, workerCode,
                    workerSignal, pendingEvent, exitHandled, sigReceived,
                    workerSignals, exitStatus, exitCause >>
    /\ UNCHANGED << sysRunnable, pyproject, postVars >>

\* index.js:48-55  serverPath check
CheckServer ==
    /\ prog = "index"
    /\ pc = << "checkServer", 0 >>
    /\ \E exists \in BOOLEAN :
        /\ fsChecks' = Append(fsChecks, [path |-> serverPath, exists |-> exists])
        /\ IF ~exists
           THEN Exit(1, << Msg("WorkerScriptMissing", NullCode, serverPath) >>,
                     "scriptMissing")
           ELSE /\ pc' = << "venv", 1 >>
                /\ UNCHANGED << stderr, exitStatus, exitCause >>
    /\ UNCHANGED << prog, env, probes, pythonCmd, spawnCalls, workerSpawns,
                    workerState, workerCmd, workerArgs, workerEnv, workerCode,
                    workerSignal, pendingEvent, exitHandled, sigReceived,
                    workerSignals >>
    /\ UNCHANGED << sysRunnable, pyproject, postVars >>

\* index.js:21-25  findPython, one iteration of the loop over venvPaths
CheckVenv(i) ==
    /\ prog = "index"
    /\ pc = << "venv", i >>
    /\ \E exists \in BOOLEAN :
        /\ fsChecks' = Append(fsChecks, [path |-> venvPaths[i], exists |-> exists])
        /\ IF exists
           THEN /\ pythonCmd' = venvPaths[i]
                /\ pc' = << "spawn", 0 >>
           ELSE /\ pythonCmd' = pythonCmd
                /\ pc' = IF i < Len(venvPaths) THEN << "venv", i + 1 >>
                                               ELSE << "probe", 1 >>
    /\ UNCHANGED << prog, env, probes, spawnCalls, workerSpawns,
                    workerState, workerCmd, workerArgs, workerEnv, workerCode,
                    workerSignal, pendingEvent, exitHandled, sigReceived,
                    workerSignals, stderr, exitStatus, exitCause >>
    /\ UNCHANGED << sysRunnable, pyproject, postVars >>

\* index.js:30-45  findPython, one iteration of the loop over candidates, and
\* the failure exit after the last one
ProbeCandidate(i) ==
    /\ prog = "index"
    /\ pc = << "probe", i >>
    /\ \E status \in ProbeStatuses :
        /\ probes' = Append(probes, [cmd |-> candidates[i], status |-> status])
        /\ IF ProbeSelects(status)
           THEN /\ stderr' = stderr \o
                        << Msg("SystemPythonWarning", NullCode, candidates[i]) >>
                /\ pythonCmd' = candidates[i]
                /\ pc' = << "spawn", 0 >>
                /\ UNCHANGED << exitStatus, exitCause >>
           ELSE IF i < Len(candidates)
           THEN /\ pc' = << "probe", i + 1 >>
                /\ UNCHANGED << pythonCmd, stderr, exitStatus, exitCause >>
           ELSE /\ Exit(1, << Msg("InterpreterNotFound", NullCode, NullSignal) >>,
                        "interpreterNotFound")
                /\ UNCHANGED pythonCmd
    /\ UNCHANGED << prog, env, fsChecks, spawnCalls, workerSpawns,
                    workerState, workerCmd, workerArgs, workerEnv, workerCode,
                    workerSignal, pendingEvent, exitHandled, sigReceived,
                    workerSignals >>
    /\ UNCHANGED << sysRunnable, pyproject, postVars >>

\* index.js:60-92  spawn the worker and register the listeners.  A spawn
\* that fails (ENOENT, EACCES) creates no process and queues 'error'.
Spawn ==
    /\ prog = "index"
    /\ pc = << "spawn", 0 >>
    /\ spawnCalls' = spawnCalls + 1
    /\ workerCmd' = pythonCmd
    /\ workerArgs' = << serverPath >>
    /\ workerEnv' = SpawnEnv(env)
    /\ \E ok \in BOOLEAN :
        IF ok
        THEN /\ workerState' = "running"
             /\ workerSpawns' = workerSpawns + 1
             /\ UNCHANGED pendingEvent
        ELSE /\ pendingEvent' = "error"
             /\ UNCHANGED << workerState, workerSpawns >>
    /\ pc' = << "loop", 0 >>
    /\ UNCHANGED << prog, env, fsChecks, probes, pythonCmd, workerCode,
                    workerSignal, exitHandled, sigReceived, workerSignals,
                    stderr, exitStatus, exitCause >>
    /\ UNCHANGED << sysRunnable, pyproject, postVars >>

\* an 'error' listener that reports the failure and does not exit: the
\* 'error' event was the last thing on the event loop, node exits with 0
OnErrorNoExit ==
    /\ prog = "index"
    /\ pc = << "loop", 0 >>
    /\ pendingEvent = "error"
    /\ pendingEvent' = "none"
    /\ Exit(0, << Msg("SpawnFailure", NullCode, workerCmd) >>, "drain")
    /\ UNCHANGED << prog, env, fsChecks, probes, pythonCmd, spawnCalls,
                    workerSpawns, workerState, workerCmd, workerArgs, workerEnv,
                    workerCode, workerSignal, exitHandled, sigReceived,
                    workerSignals >>
    /\ UNCHANGED << sysRunnable, pyproject, postVars >>

\* index.js:71-74  the 'error' listener
OnError ==
    /\ prog = "index"
    /\ pc = << "loop", 0 >>
    /\ pendingEvent = "error"
    /\ pendingEvent' = "none"
    /\ Exit(1, << Msg("SpawnFailure", NullCode, workerCmd) >>, "errorListener")
    /\ UNCHANGED << prog, env, fsChecks, probes, pythonCmd, spawnCalls,
                    workerSpawns, workerState, workerCmd, workerArgs, workerEnv,
                    workerCode, workerSignal, exitHandled, sigReceived,
                    workerSignals >>
    /\ UNCHANGED << sysRunnable, pyproject, postVars >>

\* the worker (an opaque process) ends with a status code
WorkerExits(code) ==
    /\ prog = "index"
    /\ workerState = "running"
    /\ workerState' = "exited"
    /\ workerCode' = code
    /\ workerSignal' = NullSignal
    /\ pendingEvent' = "exit"
    /\ UNCHANGED << prog, env, pc, fsChecks, probes, pythonCmd, spawnCalls,
                    workerSpawns, workerCmd, workerArgs, workerEnv, exitHandled,
                    sigReceived, workerSignals, stderr, exitStatus, exitCause >>
    /\ UNCHANGED << sysRunnable, pyproject, postVars >>

\* the worker is terminated by a signal
WorkerKilled(signal) ==
    /\ prog = "index"
    /\ workerState = "running"
    /\ workerState' = "exited"
    /\ workerCode' = NullCode
    /\ workerSignal' = signal
    /\ pendingEvent' = "exit"
    /\ UNCHANGED << prog, env, pc, fsChecks, probes, pythonCmd, spawnCalls,
                    workerSpawns, workerCmd, workerArgs, workerEnv, exitHandled,
                    sigReceived, workerSignals, stderr, exitStatus, exitCause >>
    /\ UNCHANGED << sysRunnable, pyproject, postVars >>

\* index.js:76-85  the 'exit' listener runs with (code, signal)
OnExit ==
    /\ prog = "index"
    /\ pc = << "loop", 0 >>
    /\ pendingEvent = "exit"
    /\ pendingEvent' = "none"
    /\ exitHandled' = TRUE
    /\ LET r == ExitListener(workerCode, workerSignal) IN
        IF r.exits
        THEN Exit(r.status, r.msgs, "exitListener")
        ELSE UNCHANGED << pc, stderr, exitStatus, exitCause >>
    /\ UNCHANGED << prog, env, fsChecks, probes, pythonCmd, spawnCalls,
                    workerSpawns, workerState, workerCmd, workerArgs, workerEnv,
                    workerCode, workerSignal, sigReceived, workerSignals >>
    /\ UNCHANGED << sysRunnable, pyproject, postVars >>

\* index.js:76-85  the 'exit' listener returned without process.exit: nothing
\* keeps the event loop alive (signal listeners do not), node exits with 0
LoopDrain ==
    /\ prog = "index"
    /\ pc = << "loop", 0 >>
    /\ workerState = "exited"
    /\ pendingEvent = "none"
    /\ exitHandled
    /\ Exit(0, << >>, "drain")
    /\ UNCHANGED << prog, env, fsChecks, probes, pythonCmd, spawnCalls,
                    workerSpawns, workerState, workerCmd, workerArgs, workerEnv,
                    workerCode, workerSignal, pendingEvent, exitHandled,
                    sigReceived, workerSignals >>
    /\ UNCHANGED << sysRunnable, pyproject, postVars >>

\* a SIGTERM / SIGINT listener that forwards the signal and exits at once
OnSignalExits(signal) ==
    /\ prog = "index"
    /\ pc = << "loop", 0 >>
    /\ Len(sigReceived) < MaxSignals
    /\ sigReceived' = Append(sigReceived, signal)
    /\ workerSignals' = IF workerState = "running"
                        THEN Append(workerSignals, KillSignal(signal))
                        ELSE workerSignals
    /\ Exit(0, << >>, "signalListener")
    /\ UNCHANGED << prog, env, fsChecks, probes, pythonCmd, spawnCalls,
                    workerSpawns, workerState, workerCmd, workerArgs, workerEnv,
                    workerCode, workerSignal, pendingEvent, exitHandled >>
    /\ UNCHANGED << sysRunnable, pyproject, postVars >>

\* index.js:88-92  the SIGTERM / SIGINT listener
OnSignal(signal) ==
    /\ prog = "index"
    /\ pc = << "loop", 0 >>
    /\ Len(sigReceived) < MaxSignals
    /\ sigReceived' = Append(sigReceived, signal)
    /\ workerSignals' = IF workerState = "running"
                        THEN Append(workerSignals, KillSignal(signal))
                        ELSE workerSignals
    /\ UNCHANGED << prog, env, pc, fsChecks, probes, pythonCmd, spawnCalls,
                    workerSpawns, workerState, workerCmd, workerArgs, workerEnv,
                    workerCode, workerSignal, pendingEvent, exitHandled,
                    stderr, exitStatus, exitCause >>
    /\ UNCHANGED << sysRunnable, pyproject, postVars >>


(***************************************************************************)
(* postinstall.js                                                          *)
(***************************************************************************)
\* JavaScript null for postinstall's pythonCmd
NullCmd == "null"

PostCommands == {"python3", "python", "uv"}

\* postinstall.js:29  spawnSync(cmd, ['--version'], ...): it returns an
\* object for a command that cannot be executed (status null, error ENOENT)
\* and never throws
postSpawnSync(cmd) ==
    IF cmd \in sysRunnable
    THEN [threw |-> FALSE, status |-> 0, error |-> "none"]
    ELSE [threw |-> FALSE, status |-> NullCode, error |-> "ENOENT"]

\* postinstall.js:27-34  checkCommand: true unless spawnSync throws
checkCommand(cmd) == IF postSpawnSync(cmd).threw THEN FALSE ELSE TRUE

\* postinstall.js:36-44  findPython
postFindPython ==
    IF checkCommand(candidates[1]) THEN candidates[1]
    ELSE IF checkCommand(candidates[2]) THEN candidates[2]
    ELSE NullCmd

\* process.exit(status) of postinstall.js, or the return of main (status 0)
PostExitWith(status, msgs) ==
    /\ postLog' = postLog \o msgs
    /\ postExit' = status
    /\ postPc' = "exited"

\* postinstall.js:101-110  main: check for Python
PostCheckPython ==
    /\ prog = "postinstall"
    /\ postPc = "checkPython"
    /\ postPython' = postFindPython
    /\ IF postPython' = NullCmd
       THEN PostExitWith(1, << "PythonNotFound" >>)
       ELSE /\ postLog' = Append(postLog, "FoundPython")
            /\ postPc' = "checkUv"
            /\ UNCHANGED postExit
    /\ UNCHANGED << prog, env, indexVars, sysRunnable, pyproject, hasUv >>

\* postinstall.js:112-125  main: check for uv
PostCheckUv ==
    /\ prog = "postinstall"
    /\ postPc = "checkUv"
    /\ hasUv' = checkCommand("uv")
    /\ IF hasUv'
       THEN /\ postLog' = Append(postLog, "FoundUv")
            /\ postPc' = "installUv"
       ELSE /\ postLog' = Append(postLog, "UvNotFound")
            /\ postPc' = "installPip"
    /\ UNCHANGED << prog, env, indexVars, sysRunnable, pyproject, postPython,
                    postExit >>

\* postinstall.js:46-72 and 117-121  installWithUv and main's use of it; the
\* command can only succeed when uv can be executed
PostInstallUv ==
    /\ prog = "postinstall"
    /\ postPc = "installUv"
    /\ IF ~pyproject
       THEN /\ postLog' = postLog \o << "UvFailed", "FallingBackToPip" >>
            /\ postPc' = "installPip"
            /\ UNCHANGED postExit
       ELSE \E ok \in (IF "uv" \in sysRunnable THEN BOOLEAN ELSE {FALSE}) :
            IF ok
            THEN PostExitWith(0, << "exec uv sync", "UvInstalled", "Success" >>)
            ELSE /\ postLog' = postLog \o
                        << "exec uv sync", "UvFailed", "FallingBackToPip" >>
                 /\ postPc' = "installPip"
                 /\ UNCHANGED postExit
    /\ UNCHANGED << prog, env, indexVars, sysRunnable, pyproject, postPython,
                    hasUv >>

\* postinstall.js:74-94 and 127-137  installWithPip and main's use of it; the
\* command can only succeed when pythonCmd can be executed
PostInstallPip ==
    /\ prog = "postinstall"
    /\ postPc = "installPip"
    /\ \E ok \in (IF postPython \in sysRunnable THEN BOOLEAN ELSE {FALSE}) :
        IF ok
        THEN PostExitWith(0, << "exec pip install", "PipInstalled", "Success" >>)
        ELSE PostExitWith(1, << "exec pip install", "PipFailed", "InstallFailed" >>)
    /\ UNCHANGED << prog, env, indexVars, sysRunnable, pyproject, postPython,
                    hasUv >>

(***************************************************************************)
(* Specification                                                           *)
(***************************************************************************)
IndexInit ==
    /\ pc = IF prog = "index" THEN << "checkServer", 0 >> ELSE << "idle", 0 >>
    /\ fsChecks = << >>
    /\ probes = << >>
    /\ pythonCmd = ""
    /\ spawnCalls = 0
    /\ workerSpawns = 0
    /\ workerState = "none"
    /\ workerCmd = ""
    /\ workerArgs = << >>
    /\ workerEnv = << >>
    /\ workerCode = NullCode
    /\ workerSignal = NullSignal
    /\ pendingEvent = "none"
    /\ exitHandled = FALSE
    /\ sigReceived = << >>
    /\ workerSignals = << >>
    /\ stderr = << >>
    /\ exitStatus = NullCode
    /\ exitCause = "none"

PostInit ==
    /\ postPc = IF prog = "postinstall" THEN "checkPython" ELSE "idle"
    /\ postPython = NullCmd
    /\ hasUv = FALSE
    /\ postLog = << >>
    /\ postExit = NullCode

Init ==
    /\ \/ /\ prog = "index"
          /\ sysRunnable = {}
          /\ pyproject = FALSE
       \/ /\ prog = "postinstall"
          /\ sysRunnable \in SUBSET PostCommands
          /\ pyproject \in BOOLEAN
    /\ env \in Envs
    /\ IndexInit
    /\ PostInit

Next ==
    \/ CheckServer
    \/ \E i \in 1..Len(venvPaths) : CheckVenv(i)
    \/ \E i \in 1..Len(candidates) : ProbeCandidate(i)
    \/ Spawn
    \/ OnError
    \/ \E code \in Codes : WorkerExits(code)
    \/ \E signal \in KillSignals : WorkerKilled(signal)
    \/ OnExit
    \/ LoopDrain
    \/ \E signal \in ForwardedSignals : OnSignal(signal)
    \/ PostCheckPython
    \/ PostCheckUv
    \/ PostInstallUv
    \/ PostInstallPip

Spec == Init /\ [][Next]_vars

\* The event loop runs a listener whose event is queued, and node exits when
\* nothing keeps the loop alive.  The worker and the senders of signals are
\* outside the supervisor: nothing obliges them to act.
Fairness ==
    /\ WF_vars(OnError)
    /\ WF_vars(OnExit)
    /\ WF_vars(LoopDrain)

\* the runs of Init that start from the empty environment
FairInit ==
    /\ Init
    /\ env = [n \in EnvNames |-> Absent]

FairSpec == FairInit /\ [][Next]_vars /\ Fairness

TypeOK ==
    /\ prog \in {"index", "postinstall"}
    /\ env \in Envs
    /\ spawnCalls \in 0..1
    /\ workerState \in {"none", "running", "exited"}
    /\ workerCode \in Codes \cup {NullCode}
    /\ workerSignal \in KillSignals \cup {NullSignal}
    /\ pendingEvent \in {"none", "error", "exit"}
    /\ exitStatus \in Codes \cup {NullCode}
    /\ postExit \in {NullCode, 0, 1}


(***************************************************************************)
(* Properties                                                              *)
(***************************************************************************)
SupExited == pc = << "exited", 0 >>
InLoop == pc = << "loop", 0 >>
HasMsg(m) == \E i \in 1..Len(stderr) : stderr[i] = m
HasKind(k) == \E i \in 1..Len(stderr) : stderr[i].kind = k
ScriptMissing == Len(fsChecks) >= 1 /\ ~fsChecks[1].exists
VenvFound(i) == Len(fsChecks) >= i + 1 /\ fsChecks[i + 1].exists
NoVenv == Len(fsChecks) = 3 /\ \A i \in 1..3 : fsChecks[i].exists = (i = 1)
Executed(cmd) == \E i \in 1..Len(postLog) : postLog[i] = cmd

\* C1: a worker that exits with status code c makes the supervisor exit with
\* exactly c; for c # 0 the failure was written to stderr before the exit.
C1_ExitCodePropagates ==
    (SupExited /\ workerState = "exited" /\ workerCode # NullCode) =>
        /\ exitStatus = workerCode
        /\ workerCode # 0 =>
              HasMsg(Msg("WorkerAbnormalExit", workerCode, NullSignal))

C1_Witness ==
    /\ SupExited
    /\ workerCode = 7
    /\ exitStatus = 7
    /\ HasMsg(Msg("WorkerAbnormalExit", 7, NullSignal))

\* C2: a SIGTERM or SIGINT received while the worker runs is sent, unchanged,
\* to the worker, the supervisor does not exit in that step, and the exit
\* status of a supervisor that had a worker is the one the worker-exit
\* handling gives (the 'exit' listener, or the drained event loop after it).
C2_SignalStep ==
    (sigReceived' # sigReceived /\ workerState = "running") =>
        /\ workerSignals' = Append(workerSignals, Last(sigReceived'))
        /\ workerState' = "running"
        /\ pc' = pc
        /\ exitStatus' = NullCode

C2_StatusFromWorkerExit ==
    (SupExited /\ workerSpawns = 1) =>
        /\ exitHandled
        /\ exitCause \in {"exitListener", "drain"}
        /\ exitStatus = IF workerSignal # NullSignal THEN 1 ELSE workerCode

C2_SignalForwarded == [][C2_SignalStep]_vars /\ []C2_StatusFromWorkerExit

C2_Witness ==
    /\ SupExited
    /\ sigReceived = << "SIGINT" >>
    /\ workerSignals = << "SIGINT" >>
    /\ workerSignal = "SIGINT"
    /\ exitStatus = 1

\* C3 (as stated): one worker per invocation, and the supervisor terminates
\* when, and only when, the worker terminates or the supervisor receives a
\* termination signal that it forwards.
C3_OneWorker ==
    /\ spawnCalls <= 1
    /\ workerSpawns <= spawnCalls
    /\ workerState # "none" <=> workerSpawns = 1
    /\ (InLoop /\ pendingEvent # "error") => workerSpawns = 1

C3_NoRespawn ==
    /\ workerSpawns' >= workerSpawns
    /\ workerState = "exited" => workerState' = "exited"

C3_Forwarded == workerSpawns = 1 /\ Len(workerSignals) > 0
C3_WorkerTerminated == workerSpawns = 1 /\ workerState = "exited"

C3_AsStated ==
    /\ []C3_OneWorker
    /\ [][C3_NoRespawn]_vars
    /\ []((SupExited /\ workerSpawns = 1) => (C3_WorkerTerminated \/ C3_Forwarded))
    /\ (C3_WorkerTerminated \/ C3_Forwarded) ~> SupExited

\* C3 (amended): one worker per invocation, and once the worker runs the
\* supervisor terminates when, and only when, the worker terminates; a
\* forwarded signal ends the supervisor only through the worker's termination.
C3_OneWorkerUntilItEnds ==
    /\ []C3_OneWorker
    /\ [][C3_NoRespawn]_vars
    /\ []((SupExited /\ workerSpawns = 1) => C3_WorkerTerminated)
    /\ C3_WorkerTerminated ~> SupExited

C3_Witness ==
    /\ SupExited
    /\ workerSpawns = 1
    /\ workerState = "exited"
    /\ Len(workerSignals) > 0

\* C4: the supervisor's exit status is 0 exactly when the worker exited with
\* status code 0; every other terminal path wrote its diagnostic to stderr
\* and ended with a non-zero status, and nothing was tried twice.
C4_ZeroIffCleanWorker ==
    SupExited =>
        /\ exitStatus = 0 <=> (workerState = "exited" /\ workerCode = 0)
        /\ exitStatus # 0 =>
            /\ exitStatus \in 1..MaxCode
            /\ IF ScriptMissing THEN HasKind("WorkerScriptMissing")
               ELSE IF spawnCalls = 0 THEN HasKind("InterpreterNotFound")
               ELSE IF workerSpawns = 0 THEN HasKind("SpawnFailure")
               ELSE IF workerSignal # NullSignal THEN HasKind("WorkerKilled")
               ELSE workerCode # 0 /\ HasKind("WorkerAbnormalExit")
        /\ spawnCalls <= 1
        /\ Len(probes) <= Len(candidates)
        /\ Len(fsChecks) <= 1 + Len(venvPaths)

C4_Witness ==
    /\ SupExited
    /\ spawnCalls = 1
    /\ workerSpawns = 0
    /\ exitStatus = 1
    /\ HasKind("SpawnFailure")

\* C5: a worker terminated by a signal makes the supervisor write a message
\* naming that signal and exit with status 1.
C5_KilledWorker ==
    (SupExited /\ workerState = "exited" /\ workerSignal # NullSignal) =>
        /\ exitStatus = 1
        /\ HasMsg(Msg("WorkerKilled", NullCode, workerSignal))

C5_Witness ==
    /\ SupExited
    /\ workerSignal = "SIGKILL"
    /\ exitStatus = 1
    /\ HasMsg(Msg("WorkerKilled", NullCode, "SIGKILL"))

\* C6: interpreter selection is ordered and the first success wins: a venv
\* interpreter that exists is returned from the existence check alone,
\* without a probe; python3 is probed only when no venv interpreter exists
\* and is selected iff its status is 0; python is probed only when python3
\* was not selected.
C6_SelectionOrder ==
    /\ \A i \in 1..Len(venvPaths) :
          VenvFound(i) =>
            /\ pythonCmd = venvPaths[i]
            /\ probes = << >>
            /\ Len(fsChecks) = i + 1
            /\ fsChecks[i + 1].path = venvPaths[i]
            /\ \A j \in 1..(i - 1) : ~fsChecks[j + 1].exists
    /\ pythonCmd \in {venvPaths[1], venvPaths[2]} =>
          VenvFound(IF pythonCmd = venvPaths[1] THEN 1 ELSE 2)
    /\ probes # << >> =>
          /\ NoVenv
          /\ fsChecks[2].path = venvPaths[1]
          /\ fsChecks[3].path = venvPaths[2]
          /\ Len(probes) <= 2
          /\ probes[1].cmd = "python3"
          /\ pythonCmd = "python3" <=> probes[1].status = 0
          /\ probes[1].status = 0 => Len(probes) = 1
          /\ Len(probes) = 2 =>
                /\ probes[2].cmd = "python"
                /\ pythonCmd = "python" <=> probes[2].status = 0

C6_Witness ==
    /\ pythonCmd = "python"
    /\ Len(probes) = 2
    /\ probes[1].status = NullCode
    /\ workerCmd = "python"

\* C7: when the worker script is absent the supervisor reports
\* WorkerScriptMissing with the path and exits non-zero; no interpreter is
\* looked for or probed and no worker is spawned.
C7_ScriptMissing ==
    ScriptMissing =>
        /\ SupExited
        /\ exitStatus # 0 /\ exitStatus # NullCode
        /\ stderr = << Msg("WorkerScriptMissing", NullCode, serverPath) >>
        /\ Len(fsChecks) = 1
        /\ probes = << >>
        /\ spawnCalls = 0
        /\ workerState = "none"

C7_Witness ==
    /\ ScriptMissing
    /\ SupExited
    /\ exitStatus = 1

\* C8: when no venv interpreter exists and neither python3 nor python ends
\* its version probe with status 0, the supervisor reports
\* InterpreterNotFound, exits non-zero and never spawns the worker.
C8_NoCandidate ==
    /\ prog = "index"
    /\ NoVenv
    /\ Len(probes) = Len(candidates)
    /\ \A i \in 1..Len(probes) : probes[i].status # 0

C8_InterpreterNotFound ==
    C8_NoCandidate =>
        /\ SupExited
        /\ exitStatus # 0 /\ exitStatus # NullCode
        /\ HasKind("InterpreterNotFound")
        /\ spawnCalls = 0
        /\ workerSpawns = 0
        /\ workerState = "none"

C8_Witness ==
    /\ C8_NoCandidate
    /\ probes[1].status = 1
    /\ probes[2].status = NullCode
    /\ SupExited

\* C9: the worker's environment has both flags set to '1' whatever the
\* supervisor had for them, every other variable as in the supervisor's
\* environment, and the supervisor's environment never changes.
C9_WorkerEnv ==
    spawnCalls = 1 =>
        /\ DOMAIN workerEnv = EnvNames
        /\ \A n \in FlagNames : workerEnv[n] = "1"
        /\ \A n \in EnvNames \ FlagNames : workerEnv[n] = env[n]

C9_EnvMerge == []C9_WorkerEnv /\ [][env' = env]_vars

C9_Witness ==
    /\ workerState = "running"
    /\ env["PYTHONUNBUFFERED"] = "0"
    /\ env["GRAPHISTRY_VENV_ACTIVE"] = Absent
    /\ env["GRAPHISTRY_USERNAME"] = "secret"
    /\ workerEnv["PYTHONUNBUFFERED"] = "1"
    /\ workerEnv["GRAPHISTRY_USERNAME"] = "secret"

\* C10: in the post-install script a command counts as found only if it can
\* be executed: with neither python3 nor python runnable, findPython returns
\* null and main reports 'Python not found' and exits with 1 before any
\* installer runs; uv is found and tried first only when uv is runnable.
C10_FoundMeansRunnable ==
    /\ (postPc \notin {"idle", "checkPython"} /\ "python3" \notin sysRunnable
            /\ "python" \notin sysRunnable) =>
          /\ postPython = NullCmd
          /\ postExit = 1
          /\ postLog = << "PythonNotFound" >>
    /\ (postPc \notin {"idle", "checkPython"} /\ postPython # NullCmd) =>
          postPython \in sysRunnable
    /\ hasUv => "uv" \in sysRunnable
    /\ Executed("exec uv sync") => "uv" \in sysRunnable

====
